---- MODULE Spec2Model ----
(***************************************************************************)
(* Kokoro: middleware composition (router.go), the Server adapter          *)
(* (server.go) and the per-request context.                                *)
(*                                                                         *)
(* Three specifications share the variables below:                         *)
(*   SpecRouter  registration time: Use, Group and route registration on   *)
(*               Go slices (pointer, len, cap) over shared backing arrays; *)
(*   SpecChain   one request going through Server.wrap and a composed      *)
(*               chain of up to MaxChain middleware;                       *)
(*   SpecServe   NReq concurrent requests going through Server.wrap:       *)
(*               acquire, composed chain, error handler, release.          *)
(***************************************************************************)
EXTENDS Integers, Sequences, FiniteSets, TLC

(* ------------------------------ bounds ---------------------------------- *)
MaxMw == 5          \* middleware values created during registration
MaxRouters == 2     \* the root router and its groups
MaxRoutes == 2      \* registered routes
UseArgs == {1, 2}   \* number of middleware passed to one Use call
RouteMwArgs == {0, 1}  \* number of route-specific middleware of a registration
NReq == 2            \* concurrent requests
MaxChain == 3        \* middleware in the chain of the served route (SpecChain)
MaxServeChain == 1   \* the same under concurrent requests (SpecServe)
MaxOps == 6         \* registration calls made during startup

VARIABLES
    heap,       \* backing arrays of []middlewareFunc: heap[a][i], 0 = never written
    routers,    \* routers[r]: slice header of globalMiddlewares, parent, history
    routes,     \* registered routes with their composed handler
    nextMw,     \* next fresh middleware value
    addedBy,    \* addedBy[m]: router whose Use added m, 0 for route-specific
    nops,       \* registration calls made so far
    script,     \* progress of the Use(A) / Group / Use(B) / register scenario
    kind,       \* kind[m]: what the user middleware m of the served route does
    hres,       \* the error value the served route's handler returns
    served,     \* the composed handler of the served route
    pc,         \* pc[q]: where request q is inside the handler made by wrap
    cx,         \* cx[q]: the *Context wrap holds for q, 0 before acquire
    stack,      \* stack[q]: the calls of chain links in progress
    ret,        \* ret[q]: the value the last finished link returned
    compRet,    \* compRet[q]: the value the composed handler returned to wrap
    handled,    \* handled[q]: the errors given to the error handler
    status,     \* status[q]: the response statuses written for q, in order
    log,        \* log[q]: the links entered and left, in order
    seen,       \* seen[q]: values the accessors returned to q's links
    ctxs,       \* the Context objects ever allocated
    free,       \* the pool's free list
    nego,       \* one content-negotiation call: request headers, offers, result
    rreq,       \* one Range call: header, maxSize, loop position, result
    areq,       \* one request's raw state and the accessor calls made on it
    preg        \* base paths of the routers and the paths registered

rvars == <<heap, routers, routes, nextMw, addedBy, nops, script>>
svars == <<kind, hres, served, pc, cx, stack, ret, compRet, handled, status,
           log, seen, ctxs, free>>
ovars == <<areq, preg>>
pvars == <<nego, rreq, ovars>>
vars == <<rvars, svars, pvars>>

Reqs == 1..NReq

(* --------------------------- Go slices ----------------------------------- *)
\* Capacity classes of the Go allocator for 8-byte elements
\* (size classes 8, 16, 24, 32, 48, 64, 80, 96, 112, 128 bytes).
SizeClassCaps == {1, 2, 3, 4, 6, 8, 10, 12, 14, 16}

roundupsize(n) == CHOOSE c \in SizeClassCaps :
                      c >= n /\ \A d \in SizeClassCaps : d >= n => c <= d

\* runtime.growslice for small slices: double, or the needed length when that
\* is larger, rounded up to a size class.
growslice(oldCap, newLen) ==
    roundupsize(IF newLen > 2 * oldCap THEN newLen ELSE 2 * oldCap)

Elems(hp, s) == [i \in 1..s.len |-> hp[s.arr][i]]

\* Go's built-in append(s, elems...): writes in place when the capacity
\* suffices, otherwise copies into a new backing array.
append(hp, s, elems) ==
    LET n == s.len + Len(elems) IN
    IF Len(elems) = 0 THEN [heap |-> hp, s |-> s, inplace |-> TRUE]
    ELSE IF n <= s.cap
    THEN [heap |-> [hp EXCEPT ![s.arr] =
                       [i \in 1..s.cap |->
                           IF i > s.len /\ i <= n THEN elems[i - s.len] ELSE @[i]]],
          s |-> [arr |-> s.arr, len |-> n, cap |-> s.cap],
          inplace |-> TRUE]
    ELSE LET c == growslice(s.cap, n)
             old == IF s.len = 0 THEN <<>> ELSE Elems(hp, s)
         IN [heap |-> Append(hp, [i \in 1..c |->
                                     IF i <= s.len THEN old[i]
                                     ELSE IF i <= n THEN elems[i - s.len] ELSE 0]),
             s |-> [arr |-> Len(hp) + 1, len |-> n, cap |-> c],
             inplace |-> FALSE]

(* ----------------------- middleware composition -------------------------- *)
\* A HandlerFunc value: the terminal handler or a closure made by wrapNext.
Terminal(h) == [kind |-> "handler", id |-> h, next |-> <<>>]

\* wrapNext(m)(next): the closure func(ctx) error { return m(ctx, next) }.
wrapNext(m, next) == [kind |-> "mw", id |-> m, next |-> <<next>>]

\* convertNext: one middlewareFunc per NextMiddleware, same order.
convertNext(mws) == [i \in 1..Len(mws) |-> mws[i]]

RECURSIVE chainLoopFwd(_, _, _)
chainLoopFwd(handler, mws, i) ==
    IF i > Len(mws) THEN handler
    ELSE chainLoopFwd(wrapNext(mws[i], handler), mws, i + 1)

chainMiddlewaresForward(handler, mws) == chainLoopFwd(handler, mws, 1)

RECURSIVE chainLoop(_, _, _)
chainLoop(handler, mws, i) ==
    IF i < 1 THEN handler
    ELSE chainLoop(wrapNext(mws[i], handler), mws, i - 1)

\* for i := len(mws) - 1; i >= 0; i-- { handler = mws[i](handler) }
chainMiddlewares(handler, mws) == chainLoop(handler, mws, Len(mws))

\* The links of a composed handler in the order a call runs through them,
\* the terminal handler's id last.
RECURSIVE Flatten(_)
Flatten(f) == IF f.kind = "handler" THEN <<f.id>>
              ELSE <<f.id>> \o Flatten(f.next[1])

(* ------------------------------ routers ---------------------------------- *)
\* A composed handler that kept the allMws slice and read it at call time.
ChainLazy(rt) ==
    IF rt.all.arr = 0 THEN Flatten(rt.final)
    ELSE [i \in 1..rt.all.len |-> heap[rt.all.arr][i]] \o <<rt.handler>>

\* What a call of the route's composed handler runs through: wrapNext's
\* closures captured m and next by value when the route was registered.
Chain(rt) == Flatten(rt.final)

\* The part of a route's chain that comes from globalMiddlewares.
GlobalPart(rt) == SubSeq(Chain(rt), 1, Len(Chain(rt)) - 1 - Len(rt.routeMws))

\* All middleware of a route's chain, without the terminal handler.
Middlewares(rt) == SubSeq(Chain(rt), 1, Len(Chain(rt)) - 1)

Range(seq) == {seq[i] : i \in 1..Len(seq)}

Slice(r) == [arr |-> routers[r].arr, len |-> routers[r].len, cap |-> routers[r].cap]

\* The value of r.globalMiddlewares
List(r) == IF routers[r].len = 0 THEN <<>> ELSE Elems(heap, Slice(r))

Fresh(k) == [i \in 1..k |-> nextMw + i - 1]

NewRouter == [arr |-> 0, len |-> 0, cap |-> 0, parent |-> 0,
              snap |-> <<>>, own |-> <<>>, born |-> 1]

RouterFresh ==
    /\ heap = <<>>
    /\ routers = <<NewRouter>>
    /\ routes = <<>>
    /\ nextMw = 1
    /\ addedBy = <<>>
    /\ nops = 0
    /\ script = [stage |-> 0, p |-> 0, g |-> 0, a |-> 0, b |-> 0]

\* The scenario monitor: Use(A) on p, g := p.Group, Use(B) on g,
\* a route on g, a route on p, with nothing in between.
ScriptAfterUse(r, ids) ==
    IF script.stage = 2 /\ r = script.g /\ Len(ids) = 1
    THEN [script EXCEPT !.stage = 3, !.b = ids[1]]
    ELSE IF Len(ids) = 1
    THEN [stage |-> 1, p |-> r, g |-> 0, a |-> ids[1], b |-> 0]
    ELSE [stage |-> 0, p |-> 0, g |-> 0, a |-> 0, b |-> 0]

ScriptAfterGroup(r, g) ==
    IF script.stage = 1 /\ r = script.p
    THEN [script EXCEPT !.stage = 2, !.g = g]
    ELSE [stage |-> 0, p |-> 0, g |-> 0, a |-> 0, b |-> 0]

ScriptAfterAdd(r) ==
    IF script.stage = 3 /\ r = script.g THEN [script EXCEPT !.stage = 4]
    ELSE IF script.stage = 4 /\ r = script.p THEN [script EXCEPT !.stage = 5]
    ELSE [stage |-> 0, p |-> 0, g |-> 0, a |-> 0, b |-> 0]

\* Use as it would be if a group and its parent shared one slice variable.
UseShared(r, k) ==
    /\ nops < MaxOps
    /\ nops' = nops + 1
    /\ nextMw + k - 1 <= MaxMw
    /\ LET ids == Fresh(k)
           res == append(heap, Slice(r), convertNext(ids))
       IN /\ heap' = res.heap
          /\ routers' = [x \in 1..Len(routers) |->
                 IF x = r \/ (routers[x].arr = routers[r].arr
                                /\ routers[x].len = routers[r].len)
                 THEN [routers[x] EXCEPT !.arr = res.s.arr, !.len = res.s.len,
                                         !.cap = res.s.cap,
                                         !.own = IF x = r THEN @ \o ids ELSE @]
                 ELSE routers[x]]
          /\ addedBy' = addedBy \o [i \in 1..k |-> r]
          /\ nextMw' = nextMw + k
          /\ script' = ScriptAfterUse(r, ids)
    /\ UNCHANGED routes

\* r.globalMiddlewares = append(r.globalMiddlewares, convertNext(mws...)...)
Use(r, k) ==
    /\ nops < MaxOps
    /\ nops' = nops + 1
    /\ nextMw + k - 1 <= MaxMw
    /\ LET ids == Fresh(k)
           res == append(heap, Slice(r), convertNext(ids))
       IN /\ heap' = res.heap
          /\ routers' = [routers EXCEPT ![r].arr = res.s.arr,
                                        ![r].len = res.s.len,
                                        ![r].cap = res.s.cap,
                                        ![r].own = @ \o ids]
          /\ addedBy' = addedBy \o [i \in 1..k |-> r]
          /\ nextMw' = nextMw + k
          /\ script' = ScriptAfterUse(r, ids)
    /\ UNCHANGED routes

\* &Router{r: r.r, globalMiddlewares: r.globalMiddlewares, ...}: the child
\* copies the slice header, not the elements.
Group(r) ==
    /\ nops < MaxOps
    /\ nops' = nops + 1
    /\ Len(routers) < MaxRouters
    /\ routers' = Append(routers,
                         [arr |-> routers[r].arr, len |-> routers[r].len,
                          cap |-> routers[r].cap, parent |-> r,
                          snap |-> List(r), own |-> <<>>, born |-> nextMw])
    /\ script' = ScriptAfterGroup(r, Len(routers) + 1)
    /\ UNCHANGED <<heap, routes, nextMw, addedBy>>

\* add: routeMws := convertNext(mws...); allMws := append(r.globalMiddlewares,
\* routeMws...); finalHandler := chainMiddlewares(handler, allMws...).
\* The handler of route n is -n.  A backing array allocated for allMws alone
\* is unreachable after the call and is not kept.
add(r, k) ==
    /\ nops < MaxOps
    /\ nops' = nops + 1
    /\ Len(routes) < MaxRoutes
    /\ nextMw + k - 1 <= MaxMw
    /\ LET ids == Fresh(k)
           routeMws == convertNext(ids)
           res == append(heap, Slice(r), routeMws)
           allMws == IF res.s.len = 0 THEN <<>> ELSE Elems(res.heap, res.s)
           h == 0 - (Len(routes) + 1)
           finalHandler == chainMiddlewares(Terminal(h), allMws)
       IN /\ heap' = IF res.inplace THEN res.heap ELSE heap
          /\ routes' = Append(routes,
                 [router |-> r, handler |-> h, final |-> finalHandler,
                  all |-> IF res.inplace
                          THEN [arr |-> res.s.arr, len |-> res.s.len]
                          ELSE [arr |-> 0, len |-> 0],
                  inherited |-> routers[r].snap \o routers[r].own,
                  routeMws |-> ids])
          /\ addedBy' = addedBy \o [i \in 1..k |-> 0]
          /\ nextMw' = nextMw + k
          /\ script' = ScriptAfterAdd(r)
    /\ UNCHANGED routers

\* No traffic: the state of the request side before the server listens.
ServeIdle ==
    /\ kind = <<>>
    /\ hres = [by |-> 0, code |-> 0]
    /\ served = [kind |-> "handler", id |-> 0 - 1, next |-> <<>>]
    /\ pc = [q \in Reqs |-> "idle"]
    /\ cx = [q \in Reqs |-> 0]
    /\ stack = [q \in Reqs |-> <<>>]
    /\ ret = [q \in Reqs |-> [by |-> 0, code |-> 0]]
    /\ compRet = [q \in Reqs |-> [by |-> 0, code |-> 0]]
    /\ handled = [q \in Reqs |-> <<>>]
    /\ status = [q \in Reqs |-> <<>>]
    /\ log = [q \in Reqs |-> <<>>]
    /\ seen = [q \in Reqs |-> {}]
    /\ ctxs = <<>>
    /\ free = <<>>

\* No accessor call and no path registration in progress.
OtherIdle ==
    /\ areq = [pc |-> "idle"]
    /\ preg = [pc |-> "idle"]

PureIdle ==
    /\ nego = [pc |-> "idle"]
    /\ rreq = [pc |-> "idle"]
    /\ OtherIdle

InitRouter == RouterFresh /\ ServeIdle /\ PureIdle

NextRouter ==
    \/ \E r \in 1..Len(routers), k \in UseArgs : Use(r, k) /\ UNCHANGED <<svars, pvars>>
    \/ \E r \in 1..Len(routers) : Group(r) /\ UNCHANGED <<svars, pvars>>
    \/ \E r \in 1..Len(routers), k \in RouteMwArgs : add(r, k) /\ UNCHANGED <<svars, pvars>>

SpecRouter == InitRouter /\ [][NextRouter]_vars

(* ------------------------- registration claims --------------------------- *)
LastRoute == routes[Len(routes)]

\* C4: the chain of every route is the middleware its router inherited and
\* added with Use, in that order, then the route-specific middleware in
\* argument order, then the route handler.
C4_EffectiveChain ==
    \A i \in 1..Len(routes) :
        Chain(routes[i]) =
            routes[i].inherited \o routes[i].routeMws \o <<routes[i].handler>>

\* C5: after p.Use(A), g := p.Group(..), g.Use(B), a route registered on g
\* runs p's middleware ending with A, then B, then its handler, and a route
\* registered next on p runs the same middleware without B.
C5_GroupInheritance ==
    /\ script.stage = 4 =>
          LET gp == GlobalPart(LastRoute) IN
          /\ LastRoute.router = script.g
          /\ Len(gp) >= 2
          /\ gp[Len(gp)] = script.b
          /\ gp[Len(gp) - 1] = script.a
    /\ script.stage = 5 =>
          LET pp == GlobalPart(LastRoute)
              gp == GlobalPart(routes[Len(routes) - 1]) IN
          /\ LastRoute.router = script.p
          /\ gp = pp \o <<script.b>>
          /\ pp[Len(pp)] = script.a
          /\ script.b \notin Range(pp)

\* The scenario has run to its end on a parent whose slice had spare
\* capacity, so that the group's Use wrote into the shared backing array.
C5_Witness ==
    /\ script.stage = 5
    /\ routers[script.p].arr = routers[script.g].arr
    /\ routers[script.g].len = routers[script.p].len + 1

\* C6: a registration call never changes the chain of a route that is
\* already registered.
C6_ChainFixed ==
    [][\A i \in 1..Len(routes) : (Chain(routes[i]))' = Chain(routes[i])]_vars

\* A route whose router's middleware list has changed since registration.
C6_Witness ==
    \E i \in 1..Len(routes) :
        /\ List(routes[i].router) # GlobalPart(routes[i])
        /\ routes[i].all.arr # 0
        /\ routes[i].all.arr = routers[routes[i].router].arr

\* C7: no route of a group runs a middleware that the group's parent added
\* with Use after the group was created.
C7_NoLaterParentUse ==
    \A i \in 1..Len(routes) :
        LET g == routes[i].router IN
        routers[g].parent # 0 =>
            \A m \in Range(Middlewares(routes[i])) :
                ~(addedBy[m] = routers[g].parent /\ m >= routers[g].born)

\* C8: the middleware list of every router is the snapshot taken when it was
\* created followed by exactly its own Use additions.
C8_IndependentSnapshot ==
    \A r \in 1..Len(routers) : List(r) = routers[r].snap \o routers[r].own

(* ------------------------------ requests --------------------------------- *)
StatusInternalServerError == 500
StatusNotFound == 404

NilErr == [by |-> 0, code |-> 0]
\* An error value made by link x; code # 0 for an *HTTPError.
PlainErr(x) == [by |-> x, code |-> 0]
HTTPErr(x, c) == [by |-> x, code |-> c]

Kinds == {"pass", "abort", "swallow"}
\*   pass     runs, calls next once and returns what next returned
\*   abort    returns its own error without calling next
\*   swallow  runs, calls next once and returns nil whatever next returned

HandlerId == 0 - 1

\* The raw request of q as the network engine hands it to the adapter.
RawPath(q) == <<"/req", q>>
NilDeref == <<"panic", 0>>

\* c.Path(): string(c.ctx.Request.URI().Path()), read from the raw request
\* on every call.
Path(c) == IF ctxs[c].ctx = 0 THEN NilDeref ELSE RawPath(ctxs[c].ctx)

\* The pool: acquire takes a context from the free list, or allocates one when
\* the list is empty, and binds it to the raw request.
PoolChoices == IF free = <<>> THEN {0} ELSE 1..Len(free)

RemoveAt(seq, i) == SubSeq(seq, 1, i - 1) \o SubSeq(seq, i + 1, Len(seq))

\* An acquire that binds the raw request only when it allocates.
acquireContextUnbound(q, i) ==
    IF i = 0
    THEN /\ ctxs' = Append(ctxs, [ctx |-> q, uses |-> 1])
         /\ cx' = [cx EXCEPT ![q] = Len(ctxs) + 1]
         /\ free' = free
    ELSE /\ ctxs' = [ctxs EXCEPT ![free[i]].uses = @ + 1]
         /\ cx' = [cx EXCEPT ![q] = free[i]]
         /\ free' = RemoveAt(free, i)

acquireContext(q, i) ==
    IF i = 0
    THEN /\ ctxs' = Append(ctxs, [ctx |-> q, uses |-> 1])
         /\ cx' = [cx EXCEPT ![q] = Len(ctxs) + 1]
         /\ free' = free
    ELSE /\ ctxs' = [ctxs EXCEPT ![free[i]].ctx = q, ![free[i]].uses = @ + 1]
         /\ cx' = [cx EXCEPT ![q] = free[i]]
         /\ free' = RemoveAt(free, i)

\* A release that puts the context on the free list whatever its state.
releaseContextUnguarded(c) ==
    /\ ctxs' = [ctxs EXCEPT ![c].ctx = 0]
    /\ free' = Append(free, c)

\* release clears the borrowed references and puts the context on the free
\* list; releasing a context that is already on the free list is a no-op.
releaseContext(c) ==
    /\ ctxs' = [ctxs EXCEPT ![c].ctx = 0]
    /\ free' = IF \E i \in 1..Len(free) : free[i] = c THEN free
               ELSE Append(free, c)

Top(q) == stack[q][Len(stack[q])]

\* Entries of log[q]: a link was entered, a link returned val.
Enter(m) == [ev |-> "enter", id |-> m, val |-> NilErr]
Leave(m, v) == [ev |-> "leave", id |-> m, val |-> v]

\* A return that unwinds to wrap at once, past the callers in between.
ReturnSkipsCallers(q, v) ==
    /\ stack' = [stack EXCEPT ![q] = <<>>]
    /\ compRet' = [compRet EXCEPT ![q] = v]
    /\ pc' = [pc EXCEPT ![q] = "returned"]
    /\ ret' = ret

\* A link returns v: to the link that called it, or to wrap when it is the
\* composed handler itself.
Return(q, v) ==
    LET rest == SubSeq(stack[q], 1, Len(stack[q]) - 1) IN
    IF rest = <<>>
    THEN /\ stack' = [stack EXCEPT ![q] = <<>>]
         /\ compRet' = [compRet EXCEPT ![q] = v]
         /\ pc' = [pc EXCEPT ![q] = "returned"]
         /\ ret' = ret
    ELSE /\ stack' = [stack EXCEPT ![q] = [rest EXCEPT ![Len(rest)].st = "ret"]]
         /\ ret' = [ret EXCEPT ![q] = v]
         /\ UNCHANGED <<pc, compRet>>

\* wrap, first part: ctx := acquireContext(fctx, s), then h(ctx) starts.
wrapAcquire(q) ==
    /\ pc[q] = "idle"
    /\ \E i \in PoolChoices : acquireContext(q, i)
    /\ pc' = [pc EXCEPT ![q] = "chain"]
    /\ stack' = [stack EXCEPT ![q] = <<[f |-> served, st |-> "call"]>>]
    /\ UNCHANGED <<kind, hres, served, ret, compRet, handled, status, log, seen>>

\* A closure that calls next itself whatever m did.
CallLinkThenNext(q) ==
    /\ pc[q] = "chain"
    /\ Top(q).st = "call"
    /\ Top(q).f.kind = "mw"
    /\ LET m == Top(q).f.id IN
       /\ seen' = [seen EXCEPT ![q] = @ \cup {Path(cx[q])}]
       /\ log' = [log EXCEPT ![q] = Append(@, Enter(m))]
       /\ stack' = [stack EXCEPT ![q] =
              Append([@ EXCEPT ![Len(@)].st = "wait"],
                     [f |-> Top(q).f.next[1], st |-> "call"])]
       /\ UNCHANGED <<ret, pc, compRet>>
    /\ UNCHANGED <<kind, hres, served, cx, handled, status, ctxs, free>>

\* The closure of wrapNext is called: it calls m(ctx, next); m starts, and
\* either calls next or returns without doing so.
CallLink(q) ==
    /\ pc[q] = "chain"
    /\ Top(q).st = "call"
    /\ Top(q).f.kind = "mw"
    /\ LET m == Top(q).f.id IN
       /\ seen' = [seen EXCEPT ![q] = @ \cup {Path(cx[q])}]
       /\ IF kind[m] = "abort"
          THEN /\ log' = [log EXCEPT ![q] =
                      @ \o <<Enter(m), Leave(m, PlainErr(m))>>]
               /\ Return(q, PlainErr(m))
          ELSE /\ log' = [log EXCEPT ![q] = Append(@, Enter(m))]
               /\ stack' = [stack EXCEPT ![q] =
                      Append([@ EXCEPT ![Len(@)].st = "wait"],
                             [f |-> Top(q).f.next[1], st |-> "call"])]
               /\ UNCHANGED <<ret, pc, compRet>>
    /\ UNCHANGED <<kind, hres, served, cx, handled, status, ctxs, free>>

\* A closure that drops what m returned.
ReturnLinkNil(q) ==
    /\ pc[q] = "chain"
    /\ Top(q).st = "ret"
    /\ log' = [log EXCEPT ![q] = Append(@, Leave(Top(q).f.id, NilErr))]
    /\ Return(q, NilErr)
    /\ UNCHANGED <<kind, hres, served, cx, handled, status, seen, ctxs, free>>

\* next has returned to m; m returns, and the closure of wrapNext returns
\* what m returned.
ReturnLink(q) ==
    /\ pc[q] = "chain"
    /\ Top(q).st = "ret"
    /\ LET m == Top(q).f.id
           v == IF kind[m] = "swallow" THEN NilErr ELSE ret[q]
       IN /\ log' = [log EXCEPT ![q] = Append(@, Leave(m, v))]
          /\ Return(q, v)
    /\ UNCHANGED <<kind, hres, served, cx, handled, status, seen, ctxs, free>>

\* The terminal handler runs and returns.
RunHandler(q) ==
    /\ pc[q] = "chain"
    /\ Top(q).st = "call"
    /\ Top(q).f.kind = "handler"
    /\ log' = [log EXCEPT ![q] =
           @ \o <<Enter(Top(q).f.id), Leave(Top(q).f.id, hres)>>]
    /\ seen' = [seen EXCEPT ![q] = @ \cup {Path(cx[q])}]
    /\ Return(q, hres)
    /\ UNCHANGED <<kind, hres, served, cx, handled, status, ctxs, free>>

\* An error handler that answers 500 to every error.
defaultErrorHandlerPlain(err) == StatusInternalServerError

\* defaultErrorHandler: the Code of an *HTTPError, 500 for any other error.
defaultErrorHandler(err) ==
    IF err.code # 0 THEN err.code ELSE StatusInternalServerError

\* An error branch that releases the context itself.
wrapErrorReleases(q) ==
    /\ pc[q] = "returned"
    /\ compRet[q] # NilErr
    /\ handled' = [handled EXCEPT ![q] = Append(@, compRet[q])]
    /\ \E failed \in BOOLEAN :
          status' = [status EXCEPT ![q] =
                        IF failed
                        THEN <<defaultErrorHandler(compRet[q]),
                               StatusInternalServerError>>
                        ELSE <<defaultErrorHandler(compRet[q])>>]
    /\ releaseContext(cx[q])
    /\ pc' = [pc EXCEPT ![q] = "handled"]
    /\ UNCHANGED <<kind, hres, served, cx, stack, ret, compRet, log, seen>>

\* wrap, the branch err != nil: s.errorHandler(ctx, err) writes its status;
\* when it returns an error, the 500 fallback is written after it.
wrapError(q) ==
    /\ pc[q] = "returned"
    /\ compRet[q] # NilErr
    /\ handled' = [handled EXCEPT ![q] = Append(@, compRet[q])]
    /\ \E failed \in BOOLEAN :
          status' = [status EXCEPT ![q] =
                        IF failed
                        THEN <<defaultErrorHandler(compRet[q]),
                               StatusInternalServerError>>
                        ELSE <<defaultErrorHandler(compRet[q])>>]
    /\ pc' = [pc EXCEPT ![q] = "handled"]
    /\ UNCHANGED <<kind, hres, served, cx, stack, ret, compRet, log, seen,
                   ctxs, free>>

\* A wrap that returns from the error branch without releasing.
wrapReleaseNotAfterError(q) ==
    /\ \/ pc[q] = "returned" /\ compRet[q] = NilErr
       \/ pc[q] = "handled"
    /\ IF compRet[q] = NilErr THEN releaseContext(cx[q])
       ELSE UNCHANGED <<ctxs, free>>
    /\ pc' = [pc EXCEPT ![q] = "done"]
    /\ UNCHANGED <<kind, hres, served, cx, stack, ret, compRet, handled,
                   status, log, seen>>

\* wrap, last statement: releaseContext(ctx).
wrapRelease(q) ==
    /\ \/ pc[q] = "returned" /\ compRet[q] = NilErr
       \/ pc[q] = "handled"
    /\ releaseContext(cx[q])
    /\ pc' = [pc EXCEPT ![q] = "done"]
    /\ UNCHANGED <<kind, hres, served, cx, stack, ret, compRet, handled,
                   status, log, seen>>

\* A second releaseContext(ctx) right after the one of wrap, before any
\* request has acquired the context again.
releaseAgain(q) ==
    /\ pc[q] = "done"
    /\ \A p \in Reqs : pc[p] \in {"chain", "returned", "handled"} => cx[p] # cx[q]
    /\ releaseContext(cx[q])
    /\ pc' = [pc EXCEPT ![q] = "done2"]
    /\ UNCHANGED <<kind, hres, served, cx, stack, ret, compRet, handled,
                   status, log, seen>>

\* The served route: middleware 1..n of any kinds around one handler,
\* composed as add composes it.
InitServeWith(maxn) ==
    /\ RouterFresh
    /\ PureIdle
    /\ \E n \in 0..maxn :
          /\ kind \in [1..n -> Kinds]
          /\ served = chainMiddlewares(Terminal(HandlerId),
                                       convertNext([i \in 1..n |-> i]))
    /\ hres \in {NilErr, PlainErr(HandlerId), HTTPErr(HandlerId, StatusNotFound)}
    /\ pc = [q \in Reqs |-> "idle"]
    /\ cx = [q \in Reqs |-> 0]
    /\ stack = [q \in Reqs |-> <<>>]
    /\ ret = [q \in Reqs |-> NilErr]
    /\ compRet = [q \in Reqs |-> NilErr]
    /\ handled = [q \in Reqs |-> <<>>]
    /\ status = [q \in Reqs |-> <<>>]
    /\ log = [q \in Reqs |-> <<>>]
    /\ seen = [q \in Reqs |-> {}]
    /\ ctxs = <<>>
    /\ free = <<>>

InitServe == InitServeWith(MaxServeChain)

InitChain == InitServeWith(MaxChain)

\* One request at a time.
NextChain ==
    \/ wrapAcquire(1) /\ UNCHANGED <<rvars, pvars>>
    \/ CallLink(1) /\ UNCHANGED <<rvars, pvars>>
    \/ ReturnLink(1) /\ UNCHANGED <<rvars, pvars>>
    \/ RunHandler(1) /\ UNCHANGED <<rvars, pvars>>
    \/ wrapError(1) /\ UNCHANGED <<rvars, pvars>>
    \/ wrapRelease(1) /\ UNCHANGED <<rvars, pvars>>

SpecChain == InitChain /\ [][NextChain]_vars

NextServe ==
    \/ \E q \in Reqs : wrapAcquire(q) /\ UNCHANGED <<rvars, pvars>>
    \/ \E q \in Reqs : CallLink(q) /\ UNCHANGED <<rvars, pvars>>
    \/ \E q \in Reqs : ReturnLink(q) /\ UNCHANGED <<rvars, pvars>>
    \/ \E q \in Reqs : RunHandler(q) /\ UNCHANGED <<rvars, pvars>>
    \/ \E q \in Reqs : wrapError(q) /\ UNCHANGED <<rvars, pvars>>
    \/ \E q \in Reqs : wrapRelease(q) /\ UNCHANGED <<rvars, pvars>>

SpecServe == InitServe /\ [][NextServe]_vars

\* Concurrent requests, and callers that release their context twice.
NextPool ==
    \/ \E q \in Reqs : wrapAcquire(q) /\ UNCHANGED <<rvars, pvars>>
    \/ \E q \in Reqs : CallLink(q) /\ UNCHANGED <<rvars, pvars>>
    \/ \E q \in Reqs : ReturnLink(q) /\ UNCHANGED <<rvars, pvars>>
    \/ \E q \in Reqs : RunHandler(q) /\ UNCHANGED <<rvars, pvars>>
    \/ \E q \in Reqs : wrapError(q) /\ UNCHANGED <<rvars, pvars>>
    \/ \E q \in Reqs : wrapRelease(q) /\ UNCHANGED <<rvars, pvars>>
    \/ \E q \in Reqs : releaseAgain(q) /\ UNCHANGED <<rvars, pvars>>

SpecPool == InitServe /\ [][NextPool]_vars

(* --------------------------- request claims ------------------------------ *)
NMw == Len(kind)

\* The ids of the links q has entered so far, in order.
RECURSIVE EnteredOf(_)
EnteredOf(l) ==
    IF l = <<>> THEN <<>>
    ELSE IF l[1].ev = "enter" THEN <<l[1].id>> \o EnteredOf(Tail(l))
    ELSE EnteredOf(Tail(l))

Entered(q) == EnteredOf(log[q])

\* Registration order of the served chain: m1..mn, then the handler.
InOrder == [i \in 1..NMw + 1 |-> IF i <= NMw THEN i ELSE HandlerId]

IsPrefix(a, b) == Len(a) <= Len(b) /\ a = SubSeq(b, 1, Len(a))

ChainOver(q) == pc[q] \in {"returned", "handled", "done"}

Holding(q) == pc[q] \in {"chain", "returned", "handled"}

AllCallNext == \A m \in 1..NMw : kind[m] # "abort"

\* C1: when every middleware calls its next, a call of the composed handler
\* enters m1, m2, ..., mn in this order and the handler last; without
\* middleware the composed handler is the handler itself; one link is entered
\* at a time.
C1_RegistrationOrder ==
    /\ NMw = 0 => served = Terminal(HandlerId)
    /\ \A q \in Reqs :
          /\ AllCallNext => IsPrefix(Entered(q), InOrder)
          /\ AllCallNext /\ ChainOver(q) => Entered(q) = InOrder
          /\ \A i \in 1..Len(stack[q]) :
                stack[q][i].st = "call" => i = Len(stack[q])

C1_Witness ==
    /\ NMw = MaxChain
    /\ AllCallNext
    /\ \E q \in Reqs : pc[q] = "done" /\ Entered(q) = InOrder

\* C2: when a middleware mk returns an error without calling its next, no
\* later middleware and not the handler is entered for that request.
C2_AbortStopsChain ==
    \A q \in Reqs : \A k \in 1..NMw :
        (kind[k] = "abort" /\ k \in Range(Entered(q))) =>
            \A x \in Range(Entered(q)) : x # HandlerId /\ x <= k

C2_Witness ==
    \E q \in Reqs : \E k \in 2..NMw :
        /\ k < NMw
        /\ kind[k] = "abort"
        /\ pc[q] = "done"
        /\ Entered(q) = [i \in 1..k |-> i]

\* The non-nil errors some link of q's chain has returned.
Raised(q) == {log[q][i].val : i \in {j \in 1..Len(log[q]) :
                 log[q][j].ev = "leave" /\ log[q][j].val # NilErr}}

\* C3 as stated: every non-nil error a link returns is the value the composed
\* handler returns to wrap.
C3_EveryErrorReachesCaller ==
    \A q \in Reqs : ChainOver(q) => \A e \in Raised(q) : compRet[q] = e

\* C3, amended: once a link has returned an error no further link is entered;
\* the error is the composed handler's value when every middleware around
\* that link returns what its next returned; and wrap hands exactly the
\* composed handler's value to the error handler.
C3_ErrorPropagates ==
    \A q \in Reqs :
        /\ \A i \in 1..Len(log[q]) :
              (log[q][i].ev = "leave" /\ log[q][i].val # NilErr) =>
                  \A j \in (i + 1)..Len(log[q]) : log[q][j].ev = "leave"
        /\ ChainOver(q) =>
              \A i \in 1..Len(log[q]) :
                  LET e == log[q][i] IN
                  (e.ev = "leave" /\ e.val # NilErr
                   /\ \A m \in 1..NMw :
                         (e.id = HandlerId \/ m < e.id) => kind[m] = "pass")
                      => compRet[q] = e.val
        /\ pc[q] \in {"handled", "done"} =>
              handled[q] = IF compRet[q] = NilErr THEN <<>> ELSE <<compRet[q]>>

\* The handler's error went through two middleware and reached the error
\* handler.
C3_Witness ==
    \E q \in Reqs :
        /\ pc[q] = "done"
        /\ NMw >= 2
        /\ \A m \in 1..NMw : kind[m] = "pass"
        /\ hres # NilErr
        /\ handled[q] = <<hres>>

\* C9: two requests between their acquire and their release never hold the
\* same context.
C9_OneHolder ==
    \A q1, q2 \in Reqs :
        (q1 # q2 /\ Holding(q1) /\ Holding(q2)) => cx[q1] # cx[q2]

\* Two requests are inside wrap at the same time, both with a context.
C9_Witness ==
    \E q1, q2 \in Reqs :
        /\ q1 # q2
        /\ pc[q1] = "chain" /\ Len(log[q1]) > 0
        /\ pc[q2] = "chain" /\ Len(log[q2]) > 0

\* C10: an accessor called on an acquired context returns the value of the
\* request that holds it, also on a reused context; a context on the free
\* list keeps no reference to a request.
C10_NoStaleValue ==
    /\ \A q \in Reqs : seen[q] \subseteq {RawPath(q)}
    /\ \A q \in Reqs : Holding(q) => ctxs[cx[q]].ctx = q
    /\ \A i \in 1..Len(free) : ctxs[free[i]].ctx = 0

\* A request reads its own path through a context on which an earlier
\* request had read another path.
C10_Witness ==
    \E q, p \in Reqs :
        /\ q # p
        /\ Holding(q)
        /\ pc[p] = "done" /\ cx[p] = cx[q]
        /\ ctxs[cx[q]].uses = 2
        /\ seen[p] = {RawPath(p)}
        /\ seen[q] = {RawPath(q)}

Digits == <<"0", "1", "2", "3", "4", "5", "6", "7", "8", "9">>

IsDigit(ch) == \E i \in 1..10 : Digits[i] = ch

DigitVal(ch) == (CHOOSE i \in 1..10 : Digits[i] = ch) - 1

AllDigits(s) == \A i \in 1..Len(s) : IsDigit(s[i])

\* The value of a string of decimal digits, 0 for "".
RECURSIVE DecVal(_)
DecVal(s) == IF s = <<>> THEN 0
             ELSE 10 * DecVal(SubSeq(s, 1, Len(s) - 1)) + DigitVal(s[Len(s)])

Upper == <<"A", "H", "J", "P", "T", "X">>
Lower == <<"a", "h", "j", "p", "t", "x">>

\* strings.ToLower, on the letters that occur in the headers and offers.
ToLower(s) == [i \in 1..Len(s) |->
                  IF \E k \in 1..Len(Upper) : Upper[k] = s[i]
                  THEN Lower[CHOOSE k \in 1..Len(Upper) : Upper[k] = s[i]]
                  ELSE s[i]]

\* strings.Index(s, sub): position of the first occurrence counted from 1,
\* 0 when there is none (Go: from 0, and -1).
Index(s, sub) ==
    LET hits == {i \in 1..(Len(s) - Len(sub) + 1) :
                    SubSeq(s, i, i + Len(sub) - 1) = sub}
    IN IF hits = {} THEN 0 ELSE CHOOSE i \in hits : \A j \in hits : i <= j

\* strings.Split(s, sep) for a one-character separator: Split("", sep) is [""].
RECURSIVE Split(_, _)
Split(s, sep) ==
    LET i == Index(s, <<sep>>) IN
    IF i = 0 THEN <<s>>
    ELSE <<SubSeq(s, 1, i - 1)>> \o Split(SubSeq(s, i + 1, Len(s)), sep)

\* strings.SplitN(s, sep, 2): cut at the first separator only.
SplitN2(s, sep) ==
    LET i == Index(s, <<sep>>) IN
    IF i = 0 THEN <<s>>
    ELSE <<SubSeq(s, 1, i - 1), SubSeq(s, i + 1, Len(s))>>

RECURSIVE TrimSpaceLeft(_)
TrimSpaceLeft(s) == IF s # <<>> /\ s[1] = " " THEN TrimSpaceLeft(Tail(s)) ELSE s

RECURSIVE TrimSpaceRight(_)
TrimSpaceRight(s) == IF s # <<>> /\ s[Len(s)] = " "
                THEN TrimSpaceRight(SubSeq(s, 1, Len(s) - 1)) ELSE s

\* strings.TrimSpace
TrimSpace(s) == TrimSpaceRight(TrimSpaceLeft(s))

HasPrefix(s, prefix) ==
    Len(s) >= Len(prefix) /\ SubSeq(s, 1, Len(prefix)) = prefix

HasSuffix(s, suffix) ==
    Len(s) >= Len(suffix) /\ SubSeq(s, Len(s) - Len(suffix) + 1, Len(s)) = suffix

TrimSuffix(s, suffix) ==
    IF HasSuffix(s, suffix) THEN SubSeq(s, 1, Len(s) - Len(suffix)) ELSE s

\* strings.Join(parts, sep)
RECURSIVE Join(_, _)
Join(parts, sep) ==
    IF parts = <<>> THEN <<>>
    ELSE IF Len(parts) = 1 THEN parts[1]
    ELSE parts[1] \o <<sep>> \o Join(Tail(parts), sep)

\* strconv.ParseFloat(s, 64) on the decimal forms "d", "d.d", ".d", "d.":
\* the value in thousandths; everything else that occurs here is an error.
ParseFloat(s) ==
    LET dot == Index(s, <<".">>)
        ip == IF dot = 0 THEN s ELSE SubSeq(s, 1, dot - 1)
        fp == IF dot = 0 THEN <<>> ELSE SubSeq(s, dot + 1, Len(s))
        pad == fp \o [i \in 1..(3 - Len(fp)) |-> "0"]
    IN IF AllDigits(ip) /\ AllDigits(fp) /\ Len(ip) + Len(fp) > 0 /\ Len(fp) <= 3
       THEN [ok |-> TRUE, val |-> 1000 * DecVal(ip) + DecVal(pad)]
       ELSE [ok |-> FALSE, val |-> 0]

\* strconv.ParseInt(s, 10, 64): an optional sign and at least one digit.
ParseInt(s) ==
    LET signed == s # <<>> /\ s[1] \in {"+", "-"}
        ds == IF signed THEN Tail(s) ELSE s
    IN IF ds # <<>> /\ AllDigits(ds)
       THEN [ok |-> TRUE,
             val |-> IF signed /\ s[1] = "-" THEN 0 - DecVal(ds) ELSE DecVal(ds)]
       ELSE [ok |-> FALSE, val |-> 0]

(* ------------------------- content negotiation --------------------------- *)
MaxItems == 2       \* comma-separated items of a negotiation header
MaxOffers == 2      \* offers passed to one Accepts call

\* Header items as they are written in a request; t/h, a/j and t/p stand
\* for text/html, application/json and text/plain.
ItemTexts ==
    { <<"t", "/", "h">>,
      <<" ", "a", "/", "j", ";", "q", "=", "0", ".", "9">>,
      <<"*", "/", "*">>,
      <<"T", "/", "*", ";", "q", "=", "0", ".", "5">>,
      <<"*", ";", "q", "=", "x">> }

OfferTexts == { <<"a", "/", "j">>, <<"t", "/", "h">>, <<"T", "/", "P">> }

\* The headers read by Accepts, AcceptsCharsets, AcceptsEncodings and
\* AcceptsLanguages.
HeaderNames == {"Accept", "Accept-Charset", "Accept-Encoding", "Accept-Language"}

\* c.GetHeader(key): the value of the request header, "" when it is absent.
GetHeader(headers, key) ==
    IF key \in DOMAIN headers THEN headers[key] ELSE <<>>

\* One part of the header: trim, cut at ";q=", parse the weight (1.0 when
\* absent or unparsable), lower-case the value.  Weights are in thousandths.
parseAcceptItem(rawPart) ==
    LET part == TrimSpace(rawPart)
        idx == Index(part, <<";", "q", "=">>)
        qValStr == SubSeq(part, idx + 3, Len(part))
        qVal == ParseFloat(qValStr)
    IN IF idx # 0
       THEN [value |-> ToLower(SubSeq(part, 1, idx - 1)),
             q |-> IF qVal.ok THEN qVal.val ELSE 1000]
       ELSE [value |-> ToLower(part), q |-> 1000]

\* sort.Slice with less(i, j) = items[i].q > items[j].q; for fewer than 13
\* elements the library sorts by insertion.
RECURSIVE insertionSortInner(_, _)
insertionSortInner(a, j) ==
    IF j > 1 /\ a[j].q > a[j - 1].q
    THEN insertionSortInner([a EXCEPT ![j] = a[j - 1], ![j - 1] = a[j]], j - 1)
    ELSE a

RECURSIVE insertionSort(_, _)
insertionSort(a, i) ==
    IF i > Len(a) THEN a ELSE insertionSort(insertionSortInner(a, i), i + 1)

\* The pattern-defeating quicksort behind sort.Slice for a slice one longer
\* than maxInsertion.  Indices are Go's, from 0: data[x] is d[x + 1].
maxInsertion == 12

less(x, y) == x.q > y.q

Swap(d, x, y) == [d EXCEPT ![x + 1] = d[y + 1], ![y + 1] = d[x + 1]]

\* order2_func: x, y in the order of their elements, and the swaps counted.
order2(d, x, y, swaps) ==
    IF less(d[y + 1], d[x + 1]) THEN [x |-> y, y |-> x, swaps |-> swaps + 1]
    ELSE [x |-> x, y |-> y, swaps |-> swaps]

\* median_func: the index of the median of three, and the swaps counted.
median(d, x, y, z) ==
    LET s1 == order2(d, x, y, 0)
        s2 == order2(d, s1.y, z, s1.swaps)
        s3 == order2(d, s1.x, s2.x, s2.swaps)
    IN [pivot |-> s3.y, swaps |-> s3.swaps]

\* choosePivot_func for 8 <= b - a < 50: the median of the elements at the
\* three quarters; no swap counted is the hint "increasing".
choosePivot(d, a, b) ==
    LET l == b - a
    IN median(d, a + (l \div 4) * 1, a + (l \div 4) * 2, a + (l \div 4) * 3)

\* partialInsertionSort_func for b - a < 50: true when no element is less
\* than the one before it, false without moving anything otherwise.
partialInsertionSort(d, a, b) ==
    \A i \in (a + 1)..(b - 1) : ~less(d[i + 1], d[i])

\* for i <= j && data.Less(i, a) { i++ }
RECURSIVE scanUp(_, _, _, _)
scanUp(d, a, i, j) ==
    IF i <= j /\ less(d[i + 1], d[a + 1]) THEN scanUp(d, a, i + 1, j) ELSE i

\* for i <= j && !data.Less(j, a) { j-- }
RECURSIVE scanDown(_, _, _, _)
scanDown(d, a, i, j) ==
    IF i <= j /\ ~less(d[j + 1], d[a + 1]) THEN scanDown(d, a, i, j - 1) ELSE j

\* The loop of partition_func.
RECURSIVE partitionLoop(_, _, _, _)
partitionLoop(d, a, i, j) ==
    LET i2 == scanUp(d, a, i, j)
        j2 == scanDown(d, a, i2, j)
    IN IF i2 > j2 THEN [data |-> Swap(d, j2, a), mid |-> j2]
       ELSE partitionLoop(Swap(d, i2, j2), a, i2 + 1, j2 - 1)

\* partition_func: the pivot goes to the front, elements are exchanged from
\* both ends, the pivot lands at mid.
partition(d, a, b, pivot) ==
    LET d0 == Swap(d, a, pivot)
        i == scanUp(d0, a, a + 1, b - 1)
        j == scanDown(d0, a, i, b - 1)
    IN IF i > j THEN [data |-> Swap(d0, j, a), mid |-> j]
       ELSE partitionLoop(Swap(d0, i, j), a, i + 1, j - 1)

\* insertionSort_func on data[a:b].
insertionSortRange(d, a, b) ==
    SubSeq(d, 1, a) \o insertionSort(SubSeq(d, a + 1, b), 2)
        \o SubSeq(d, b + 1, Len(d))

\* pdqsort_func on maxInsertion + 1 elements: left as it is when the pivot
\* hint is "increasing" and the slice is in order; otherwise one partition,
\* whose two sides are at most maxInsertion long and sorted by insertion.
pdqsort(d) ==
    LET n == Len(d)
        cp == choosePivot(d, 0, n)
        pt == partition(d, 0, n, cp.pivot)
    IN IF cp.swaps = 0 /\ partialInsertionSort(d, 0, n) THEN d
       ELSE insertionSortRange(insertionSortRange(pt.data, 0, pt.mid),
                               pt.mid + 1, n)

\* sort.Slice(items, less): insertion sort up to maxInsertion elements,
\* pdqsort above (modelled for maxInsertion + 1 elements).
sortSlice(items) ==
    IF Len(items) <= maxInsertion THEN insertionSort(items, 2)
    ELSE pdqsort(items)

\* parseAccept without the sort: items in header order.
parseAcceptUnsorted(header) ==
    LET parts == Split(header, ",")
    IN [i \in 1..Len(parts) |-> parseAcceptItem(parts[i])]

parseAccept(header) ==
    LET parts == Split(header, ",")
        items == [i \in 1..Len(parts) |-> parseAcceptItem(parts[i])]
    IN sortSlice(items)

\* The test of the inner loop of matchAccept for one item and one
\* lower-cased offer.
accMatches(acc, offer) ==
    \/ acc.value = offer
    \/ acc.value = <<"*">>
    \/ /\ HasSuffix(acc.value, <<"/", "*">>)
       /\ HasPrefix(offer, TrimSuffix(acc.value, <<"*">>))

\* for i, offer := range offersLower: the first index that matches, 0 if none.
RECURSIVE matchOffers(_, _, _)
matchOffers(acc, offersLower, i) ==
    IF i > Len(offersLower) THEN 0
    ELSE IF accMatches(acc, offersLower[i]) THEN i
    ELSE matchOffers(acc, offersLower, i + 1)

\* for _, acc := range accepted: return offers[i] at the first match.
RECURSIVE matchItems(_, _, _, _)
matchItems(accepted, offers, offersLower, k) ==
    IF k > Len(accepted) THEN <<>>
    ELSE LET i == matchOffers(accepted[k], offersLower, 1) IN
         IF i # 0 THEN offers[i]
         ELSE matchItems(accepted, offers, offersLower, k + 1)

\* matchAccept comparing the offers as they are written.
matchAcceptExactCase(header, offers) ==
    IF header = <<>> \/ Len(offers) = 0 THEN <<>>
    ELSE matchItems(parseAccept(header), offers, offers, 1)

\* matchAccept that answers "" whenever the best item matches nothing.
matchAcceptFirstItemOnly(header, offers) ==
    IF header = <<>> \/ Len(offers) = 0 THEN <<>>
    ELSE LET accepted == parseAccept(header)
             offersLower == [i \in 1..Len(offers) |-> ToLower(offers[i])]
         IN matchItems(SubSeq(accepted, 1, 1), offers, offersLower, 1)

matchAccept(header, offers) ==
    IF header = <<>> \/ Len(offers) = 0 THEN <<>>
    ELSE LET accepted == parseAccept(header)
             offersLower == [i \in 1..Len(offers) |-> ToLower(offers[i])]
         IN matchItems(accepted, offers, offersLower, 1)

\* One negotiation call on a request: nothing else is running.
InitAccept ==
    /\ RouterFresh
    /\ ServeIdle
    /\ rreq = [pc |-> "idle"]
    /\ OtherIdle
    /\ \E n \in 0..MaxItems, m \in 0..MaxOffers :
          \E texts \in [1..n -> ItemTexts], offs \in [1..m -> OfferTexts],
             hname \in HeaderNames :
              nego = [pc |-> "ready",
                      headers |-> [h \in HeaderNames |->
                                      IF h = hname THEN Join(texts, ",")
                                      ELSE <<>>],
                      offers |-> offs, called |-> "", result |-> <<>>]

\* matchAccept(c.GetHeader(name), offers)
AcceptsOf(name) ==
    /\ nego.pc = "ready"
    /\ nego' = [nego EXCEPT !.pc = "done", !.called = name,
                   !.result = matchAccept(GetHeader(nego.headers, name),
                                          nego.offers)]
    /\ UNCHANGED <<rvars, svars, rreq, ovars>>

Accepts == AcceptsOf("Accept")

AcceptsCharsets == AcceptsOf("Accept-Charset")

AcceptsEncodings == AcceptsOf("Accept-Encoding")

AcceptsLanguages == AcceptsOf("Accept-Language")

NextAccept ==
    \/ Accepts
    \/ AcceptsCharsets
    \/ AcceptsEncodings
    \/ AcceptsLanguages

SpecAccept == InitAccept /\ [][NextAccept]_vars

\* Headers of maxInsertion + 1 items: a/j at position i, t/h at a later
\* position j, one item with a weight of its own at position k, "*/*"
\* everywhere else.
LongLen == maxInsertion + 1

WeightedTexts ==
    { <<"x", ";", "q", "=", "0", ".", "5">>,
      <<"x", ";", "q", "=", "5">> }

LongOffers ==
    { << <<"a", "/", "j">>, <<"t", "/", "h">> >>,
      << <<"t", "/", "h">>, <<"a", "/", "j">> >> }

InitAcceptLong ==
    /\ RouterFresh
    /\ ServeIdle
    /\ rreq = [pc |-> "idle"]
    /\ OtherIdle
    /\ \E i, j, k \in 1..LongLen :
          /\ i < j /\ k # i /\ k # j
          /\ \E w \in WeightedTexts, offs \in LongOffers :
                LET texts == [p \in 1..LongLen |->
                                 IF p = i THEN <<"a", "/", "j">>
                                 ELSE IF p = j THEN <<"t", "/", "h">>
                                 ELSE IF p = k THEN w
                                 ELSE <<"*", "/", "*">>]
                IN nego = [pc |-> "ready",
                           headers |-> [h \in HeaderNames |-> Join(texts, ",")],
                           offers |-> offs, called |-> "", result |-> <<>>]

SpecAcceptLong == InitAcceptLong /\ [][NextAccept]_vars

(* ------------------------- negotiation claims ---------------------------- *)
NegDone == nego.pc = "done"

\* The header the finished call read, and its offers.
NegHeader == GetHeader(nego.headers, nego.called)

NegOffers == nego.offers

\* The items of the header in the order they are written.
NegItems == LET parts == Split(NegHeader, ",")
            IN [i \in 1..Len(parts) |-> parseAcceptItem(parts[i])]

\* The matching rule in words: equal, or "*", or "prefix/*" with the offer
\* starting with "prefix/"; the offer compared in lower case.
RuleMatch(item, offerText) ==
    LET a == item.value
        o == ToLower(offerText)
    IN \/ a = o
       \/ a = <<"*">>
       \/ /\ Len(a) >= 2
          /\ a[Len(a) - 1] = "/"
          /\ a[Len(a)] = "*"
          /\ Len(o) >= Len(a) - 1
          /\ \A i \in 1..(Len(a) - 1) : o[i] = a[i]

MatchingItems ==
    {k \in 1..Len(NegItems) :
        \E i \in 1..Len(NegOffers) : RuleMatch(NegItems[k], NegOffers[i])}

FirstOfferOf(k) ==
    NegOffers[CHOOSE i \in 1..Len(NegOffers) :
                 /\ RuleMatch(NegItems[k], NegOffers[i])
                 /\ \A j \in 1..(i - 1) : ~RuleMatch(NegItems[k], NegOffers[j])]

\* C12: the result is the first offer, in offer order, that is matched by a
\* header item of the highest weight among the items that match any offer,
\* wherever that item stands in the header.
C12_HighestWeightFirst ==
    (NegDone /\ NegHeader # <<>> /\ MatchingItems # {}) =>
        \E k \in MatchingItems :
            /\ \A j \in MatchingItems : NegItems[j].q <= NegItems[k].q
            /\ nego.result = FirstOfferOf(k)

\* The heavier item stands later in the header and matches only the second
\* offer; the first offer is matched by the lighter item written first.
C12_Witness ==
    /\ NegDone
    /\ Len(NegOffers) = 2
    /\ \E k, j \in 1..Len(NegItems) :
          /\ k < j
          /\ NegItems[j].q > NegItems[k].q
          /\ RuleMatch(NegItems[k], NegOffers[1])
          /\ ~RuleMatch(NegItems[j], NegOffers[1])
          /\ RuleMatch(NegItems[j], NegOffers[2])
    /\ nego.result = NegOffers[2]
    /\ NegOffers[2] # NegOffers[1]

\* C13: for the header "*/*" and a non-empty list of offers the result is
\* the first offer.
C13_AnyTypeMatchesAll ==
    (NegDone /\ NegHeader = <<"*", "/", "*">> /\ Len(NegOffers) > 0) =>
        nego.result = NegOffers[1]

\* C14: an item matches an offer exactly by the rule (equal, "*", or
\* "prefix/*"), compared without regard to case, and the result is the
\* matched offer as the caller wrote it: an element of offers, or "".
C14_MatchingRule ==
    NegDone =>
        /\ nego.result = <<>> \/ \E i \in 1..Len(NegOffers) :
                                    NegOffers[i] = nego.result
        /\ (nego.result # <<>>) =>
              \E k \in 1..Len(NegItems) : RuleMatch(NegItems[k], nego.result)
        /\ (NegHeader # <<>> /\ MatchingItems # {}) =>
              \E k \in MatchingItems : nego.result = FirstOfferOf(k)

\* An offer written in upper case is returned as written for a "prefix/*"
\* item that was written in upper case too.
C14_Witness ==
    /\ NegDone
    /\ nego.result = <<"T", "/", "P">>
    /\ \A k \in 1..Len(NegItems) : NegItems[k].value = <<"t", "/", "*">>

MaxSpecs == 2       \* comma-separated range specs of a Range header
MaxSize == 10       \* largest maxSize passed to Range

\* Range specs as they are written in a request.
SpecTexts ==
    { <<"0", "-", "4">>,
      <<"9", "-", "1", "5">>,
      <<"-", "5">>,
      <<" ", "3", "-", " ">>,
      <<"5", "-", "3">>,
      <<"7">>,
      <<"-", "0">>,
      <<"x", "-", "1">>,
      <<"1", "-", "x">> }

Bytes == <<"b", "y", "t", "e", "s">>

UnitTexts == { Bytes, <<" ">> \o Bytes, <<"i", "t", "e", "m", "s">> }

\* The error values of Range, by their message.
ErrNoHeader == "no Range header"
ErrFormat == "invalid Range header format"
ErrUnit == "unsupported range unit"
ErrSegment == "invalid range segment"
ErrSuffix == "invalid suffix range value"
ErrStart == "invalid start range value"
ErrEnd == "invalid end range value"
ErrNoValid == "no valid byte ranges found in header"

Max(a, b) == IF a > b THEN a ELSE b

SegErr(e) == [kind |-> "err", err |-> e, start |-> 0, end |-> 0]
SegRange(a, b, maxSize) ==
    IF a >= maxSize \/ a > b
    THEN [kind |-> "skip", err |-> "", start |-> a, end |-> b]
    ELSE [kind |-> "range", err |-> "", start |-> a, end |-> b]

\* A suffix branch that neither clamps the length nor bounds the start.
suffixSegmentUnclamped(bounds, maxSize) ==
    LET n == ParseInt(bounds[2]) IN
    IF ~n.ok \/ n.val <= 0 THEN SegErr(ErrSuffix)
    ELSE SegRange(maxSize - n.val, maxSize - 1, maxSize)

\* bounds[0] == "": the last n bytes.
suffixSegment(bounds, maxSize) ==
    LET n == ParseInt(bounds[2]) IN
    IF ~n.ok \/ n.val <= 0 THEN SegErr(ErrSuffix)
    ELSE LET end == IF n.val > maxSize THEN maxSize ELSE n.val
         IN SegRange(Max(maxSize - end, 0), maxSize - 1, maxSize)

\* An explicit branch that keeps the end as it is written.
explicitSegmentNoClamp(bounds, maxSize) ==
    LET a == ParseInt(bounds[1]) IN
    IF ~a.ok \/ a.val < 0 THEN SegErr(ErrStart)
    ELSE IF bounds[2] # <<>>
    THEN LET b == ParseInt(bounds[2]) IN
         IF ~b.ok \/ b.val < a.val THEN SegErr(ErrEnd)
         ELSE SegRange(a.val, b.val, maxSize)
    ELSE SegRange(a.val, maxSize - 1, maxSize)

\* An explicit branch whose open-ended form ends at maxSize.
explicitSegmentOpenEnd(bounds, maxSize) ==
    LET a == ParseInt(bounds[1]) IN
    IF ~a.ok \/ a.val < 0 THEN SegErr(ErrStart)
    ELSE IF bounds[2] # <<>>
    THEN LET b == ParseInt(bounds[2]) IN
         IF ~b.ok \/ b.val < a.val THEN SegErr(ErrEnd)
         ELSE SegRange(a.val, IF b.val >= maxSize THEN maxSize - 1 ELSE b.val,
                       maxSize)
    ELSE SegRange(a.val, maxSize, maxSize)

\* bounds[0] != "": start, and the end when one is written.
explicitSegment(bounds, maxSize) ==
    LET a == ParseInt(bounds[1]) IN
    IF ~a.ok \/ a.val < 0 THEN SegErr(ErrStart)
    ELSE IF bounds[2] # <<>>
    THEN LET b == ParseInt(bounds[2]) IN
         IF ~b.ok \/ b.val < a.val THEN SegErr(ErrEnd)
         ELSE SegRange(a.val, IF b.val >= maxSize THEN maxSize - 1 ELSE b.val,
                       maxSize)
    ELSE SegRange(a.val, maxSize - 1, maxSize)

\* A loop body that drops a segment it cannot parse.
parseSegmentLenient(rawStr, maxSize) ==
    LET rStr == TrimSpace(rawStr)
        bounds == SplitN2(rStr, "-")
        seg == IF Len(bounds) # 2 THEN SegErr(ErrSegment)
               ELSE IF bounds[1] = <<>> THEN suffixSegment(bounds, maxSize)
               ELSE explicitSegment(bounds, maxSize)
    IN IF seg.kind = "err"
       THEN [kind |-> "skip", err |-> "", start |-> 0, end |-> 0] ELSE seg

\* The body of the loop over rangesStrs for one rStr: an error return, a
\* skipped range (continue) or a range to append.
parseSegment(rawStr, maxSize) ==
    LET rStr == TrimSpace(rawStr)
        bounds == SplitN2(rStr, "-")
    IN IF Len(bounds) # 2 THEN SegErr(ErrSegment)
       ELSE IF bounds[1] = <<>> THEN suffixSegment(bounds, maxSize)
       ELSE explicitSegment(bounds, maxSize)

RangeFail(e) ==
    rreq' = [rreq EXCEPT !.pc = "done", !.err = e, !.ranges = <<>>,
                         !.out = [nil |-> TRUE]]

\* One Range call on a request: nothing else is running.  The header is
\* absent, has no "=", or is unit "=" specs.
InitRange ==
    /\ RouterFresh
    /\ ServeIdle
    /\ nego = [pc |-> "idle"]
    /\ OtherIdle
    /\ \E size \in 0..MaxSize, n \in 0..MaxSpecs :
          \E texts \in [1..n -> SpecTexts] :
             \E hdr \in {<<>>, Bytes}
                        \cup {u \o <<"=">> \o Join(texts, ",") : u \in UnitTexts} :
                 rreq = [pc |-> "ready", headers |-> [Range |-> hdr],
                         maxSize |-> size, unit |-> <<>>, strs |-> <<>>,
                         i |-> 0, ranges |-> <<>>, err |-> "",
                         out |-> [nil |-> TRUE]]

\* Range, up to the loop: the header, its "=", its unit.
RangeBegin ==
    /\ rreq.pc = "ready"
    /\ LET header == GetHeader(rreq.headers, "Range")
           parts == SplitN2(header, "=")
           unit == TrimSpace(parts[1])
       IN IF header = <<>> THEN RangeFail(ErrNoHeader)
          ELSE IF Len(parts) # 2 THEN RangeFail(ErrFormat)
          ELSE IF unit # Bytes THEN RangeFail(ErrUnit)
          ELSE rreq' = [rreq EXCEPT !.pc = "loop", !.unit = unit,
                                    !.strs = Split(parts[2], ","), !.i = 1]
    /\ UNCHANGED <<rvars, svars, nego, ovars>>

\* One iteration of for _, rStr := range rangesStrs.
RangeSegment ==
    /\ rreq.pc = "loop"
    /\ rreq.i <= Len(rreq.strs)
    /\ LET seg == parseSegment(rreq.strs[rreq.i], rreq.maxSize) IN
       IF seg.kind = "err" THEN RangeFail(seg.err)
       ELSE IF seg.kind = "skip" THEN rreq' = [rreq EXCEPT !.i = @ + 1]
       ELSE rreq' = [rreq EXCEPT !.i = @ + 1,
                        !.ranges = Append(@, [Start |-> seg.start,
                                              End |-> seg.end])]
    /\ UNCHANGED <<rvars, svars, nego, ovars>>

\* A return that hands out the range set even when it is empty.
RangeEndUnchecked ==
    /\ rreq.pc = "loop"
    /\ rreq.i > Len(rreq.strs)
    /\ rreq' = [rreq EXCEPT !.pc = "done",
                   !.out = [Type |-> rreq.unit, Ranges |-> rreq.ranges]]
    /\ UNCHANGED <<rvars, svars, nego, ovars>>

\* After the loop: the "no valid ranges" error, or &Range{unit, ranges}.
RangeEnd ==
    /\ rreq.pc = "loop"
    /\ rreq.i > Len(rreq.strs)
    /\ IF Len(rreq.ranges) = 0 THEN RangeFail(ErrNoValid)
       ELSE rreq' = [rreq EXCEPT !.pc = "done",
                        !.out = [Type |-> rreq.unit, Ranges |-> rreq.ranges]]
    /\ UNCHANGED <<rvars, svars, nego, ovars>>

NextRange ==
    \/ RangeBegin
    \/ RangeSegment
    \/ RangeEnd

SpecRange == InitRange /\ [][NextRange]_vars

(* ----------------------------- range claims ------------------------------ *)
RangeDone == rreq.pc = "done"

RangeHeader == rreq.headers.Range

\* The header has an "=" with the unit bytes before it.
RangeWellFormed ==
    \/ HasPrefix(RangeHeader, Bytes \o <<"=">>)
    \/ HasPrefix(RangeHeader, <<" ">> \o Bytes \o <<"=">>)

\* The specs written after the "=".
RangeSpecs ==
    Split(SubSeq(RangeHeader, Index(RangeHeader, <<"=">>) + 1, Len(RangeHeader)),
          ",")

\* What each spec text says, read by a person: a-b, a-, -n, or malformed.
Meaning(t) ==
    CASE t = <<"0", "-", "4">> -> [form |-> "explicit", a |-> 0, b |-> 4, n |-> 0]
      [] t = <<"9", "-", "1", "5">> ->
             [form |-> "explicit", a |-> 9, b |-> 15, n |-> 0]
      [] t = <<" ", "3", "-", " ">> -> [form |-> "open", a |-> 3, b |-> 0, n |-> 0]
      [] t = <<"-", "5">> -> [form |-> "suffix", a |-> 0, b |-> 0, n |-> 5]
      [] OTHER -> [form |-> "bad", a |-> 0, b |-> 0, n |-> 0]

MeaningOf(k) == Meaning(RangeSpecs[k])

Min(a, b) == IF a < b THEN a ELSE b

\* The spec stays in the result for this maxSize.
Survives(k) ==
    LET m == MeaningOf(k) IN
    \/ m.form \in {"explicit", "open"} /\ m.a < rreq.maxSize
    \/ m.form = "suffix" /\ rreq.maxSize > 0

\* The range the spec stands for.
Expected(k) ==
    LET m == MeaningOf(k)
        size == rreq.maxSize
    IN IF m.form = "explicit" THEN [Start |-> m.a, End |-> Min(m.b, size - 1)]
       ELSE IF m.form = "open" THEN [Start |-> m.a, End |-> size - 1]
       ELSE [Start |-> IF size - m.n > 0 THEN size - m.n ELSE 0,
             End |-> size - 1]

\* The place of spec k among the surviving specs.
PosOf(k) == Cardinality({j \in 1..k : Survives(j)})

AllWellFormed ==
    /\ RangeWellFormed
    /\ \A k \in 1..Len(RangeSpecs) : MeaningOf(k).form # "bad"

Returned == RangeDone /\ rreq.err = ""

\* C16: every range collected or returned by Range satisfies
\* 0 <= start <= end < maxSize, for every header and every maxSize from 0 on.
C16_RangesWithinSize ==
    /\ \A i \in 1..Len(rreq.ranges) :
          /\ 0 <= rreq.ranges[i].Start
          /\ rreq.ranges[i].Start <= rreq.ranges[i].End
          /\ rreq.ranges[i].End < rreq.maxSize
    /\ Returned =>
          /\ rreq.out.Ranges = rreq.ranges
          /\ Len(rreq.ranges) > 0

\* "bytes=9-15" on 10: the end is brought back inside the resource.
C16_Witness ==
    /\ Returned
    /\ RangeHeader = Bytes \o <<"=", "9", "-", "1", "5">>
    /\ rreq.maxSize = 10
    /\ rreq.out.Ranges = <<[Start |-> 9, End |-> 9]>>

\* C17: a spec a-b or a- with a < maxSize gives start = a and
\* end = min(b, maxSize - 1), or maxSize - 1 when no end is written; a header
\* of such specs only is not an error.
C17_ExplicitRange ==
    /\ Returned =>
          \A k \in 1..Len(RangeSpecs) :
              (MeaningOf(k).form \in {"explicit", "open"} /\ Survives(k)) =>
                  /\ PosOf(k) <= Len(rreq.out.Ranges)
                  /\ rreq.out.Ranges[PosOf(k)] = Expected(k)
    /\ (RangeDone /\ RangeWellFormed
        /\ \A k \in 1..Len(RangeSpecs) :
              MeaningOf(k).form \in {"explicit", "open"} /\ Survives(k)) =>
          rreq.err = ""

\* "bytes=0-4, 3- " on 10: an explicit and an open-ended range.
C17_Witness ==
    /\ Returned
    /\ rreq.maxSize = 10
    /\ rreq.out.Ranges = <<[Start |-> 0, End |-> 4],
                           [Start |-> 3, End |-> 9]>>

\* C18: a spec -n with n > 0 on maxSize > 0 gives
\* start = max(maxSize - n, 0) and end = maxSize - 1; a suffix longer than
\* the resource gives the whole resource and is not an error.
C18_SuffixRange ==
    /\ Returned =>
          \A k \in 1..Len(RangeSpecs) :
              (MeaningOf(k).form = "suffix" /\ rreq.maxSize > 0) =>
                  /\ PosOf(k) <= Len(rreq.out.Ranges)
                  /\ rreq.out.Ranges[PosOf(k)] = Expected(k)
    /\ (RangeDone /\ RangeWellFormed /\ rreq.maxSize > 0
        /\ \A k \in 1..Len(RangeSpecs) : MeaningOf(k).form = "suffix") =>
          rreq.err = ""

\* "bytes=-5" on 3: the suffix is longer than the resource.
C18_Witness ==
    /\ Returned
    /\ RangeSpecs = << <<"-", "5">> >>
    /\ rreq.maxSize = 3
    /\ rreq.out.Ranges = <<[Start |-> 0, End |-> 2]>>

\* The ranges of the surviving specs among 1..k, in header order.
RECURSIVE SurvivingUpTo(_)
SurvivingUpTo(k) ==
    IF k = 0 THEN <<>>
    ELSE IF Survives(k) THEN Append(SurvivingUpTo(k - 1), Expected(k))
    ELSE SurvivingUpTo(k - 1)

\* C19: for a header without malformed parts, specs that start at or
\* beyond maxSize are left out without error, the result is the ranges of the
\* other specs in header order, duplicates and overlaps kept, and when no
\* spec is left the call fails with the "no valid ranges" error.
C19_SkipAndKeepOrder ==
    (RangeDone /\ AllWellFormed) =>
        LET want == SurvivingUpTo(Len(RangeSpecs)) IN
        IF want = <<>>
        THEN rreq.err = ErrNoValid /\ rreq.out = [nil |-> TRUE]
        ELSE rreq.err = "" /\ rreq.out = [Type |-> Bytes, Ranges |-> want]

\* "bytes=9-15,0-4" on 5: the first spec is left out, the second is kept.
C19_Witness ==
    /\ Returned
    /\ RangeSpecs = << <<"9", "-", "1", "5">>, <<"0", "-", "4">> >>
    /\ rreq.maxSize = 5
    /\ rreq.out.Ranges = <<[Start |-> 0, End |-> 4]>>

\* C20: an absent or empty header, a header without "=", a unit other than
\* bytes, or one malformed spec anywhere in the header makes Range return an
\* error other than "no valid ranges", and no range set.
C20_StructuralError ==
    (RangeDone /\ ~AllWellFormed) =>
        /\ rreq.err # ""
        /\ rreq.err # ErrNoValid
        /\ rreq.out = [nil |-> TRUE]

\* "bytes=0-4,5-3" on 10: a valid spec, then one whose end is before its
\* start.
C20_Witness ==
    /\ RangeDone
    /\ RangeSpecs = << <<"0", "-", "4">>, <<"5", "-", "3">> >>
    /\ RangeWellFormed
    /\ rreq.maxSize = 10
    /\ rreq.err = ErrEnd
    /\ rreq.out = [nil |-> TRUE]

(* ---------------------- registration claims, continued ------------------- *)
\* C27: registering a route leaves the middleware list of every router as it
\* was, so that no route-specific middleware of one route gets into the list
\* a later route is composed from.
C27_RegistrationKeepsLists ==
    [][Len(routes') > Len(routes) =>
          \A r \in 1..Len(routers) : (List(r))' = List(r)]_vars

(* ------------------------ request claims, continued ---------------------- *)
AllPass == \A m \in 1..NMw : kind[m] = "pass"

\* The log of a whole call of m1..mn around h when every middleware runs its
\* first part, calls next once, runs its second part and returns what next
\* returned.
NestedLog ==
    [i \in 1..NMw |-> Enter(i)]
        \o <<Enter(HandlerId), Leave(HandlerId, hres)>>
        \o [i \in 1..NMw |-> Leave(NMw + 1 - i, hres)]

\* C28: in such a chain the handler has finished before any middleware
\* continues after its next call, the middleware continue in the order
\* mn, ..., m1, and each of them, m1 last, gets the handler's result.
C28_ProperNesting ==
    \A q \in Reqs :
        AllPass =>
            /\ IsPrefix(log[q], NestedLog)
            /\ ChainOver(q) => log[q] = NestedLog /\ compRet[q] = hres

\* Three middleware around a handler that fails: the whole nested run.
C28_Witness ==
    /\ NMw >= 3
    /\ AllPass
    /\ hres # NilErr
    /\ \E q \in Reqs : pc[q] = "done" /\ log[q] = NestedLog

\* C23: a request acquires one context before its chain starts; the chain
\* and the error handler run on that context, which stays bound to the
\* request and off the free list; the context is released once, after they
\* have returned, when the chain returned nil and when it returned an error;
\* nothing of the request runs after the release.
C23_AcquireRunRelease ==
    [][\A q \in Reqs :
          /\ pc[q] = "idle" => cx[q] = 0 /\ log[q] = <<>> /\ handled[q] = <<>>
          /\ (pc[q] = "idle" /\ pc'[q] # "idle") =>
                /\ pc'[q] = "chain"
                /\ Len(log'[q]) = 0
                /\ cx'[q] # 0
                /\ ctxs'[cx'[q]].ctx = q
                /\ \A p \in Reqs : (p # q /\ Holding(p)) => cx[p] # cx'[q]
          /\ (Holding(q) /\ pc'[q] # "done") =>
                /\ cx'[q] = cx[q]
                /\ ctxs'[cx[q]].ctx = q
                /\ \A i \in 1..Len(free') : free'[i] # cx[q]
          /\ (pc[q] # "done" /\ pc'[q] = "done") =>
                /\ \/ pc[q] = "returned" /\ compRet[q] = NilErr
                   \/ pc[q] = "handled" /\ compRet[q] # NilErr
                /\ stack[q] = <<>>
                /\ ctxs'[cx[q]].ctx = 0
                /\ free' = Append(free, cx[q])
          /\ pc[q] = "done" =>
                /\ pc'[q] = "done"
                /\ log'[q] = log[q]
                /\ handled'[q] = handled[q]
                /\ status'[q] = status[q]
                /\ seen'[q] = seen[q]]_vars

\* A request whose chain returned an error is over, its context back on the
\* free list, while another request still runs on a context of its own.
C23_Witness ==
    \E q, p \in Reqs :
        /\ pc[p] = "done" /\ compRet[p] # NilErr /\ handled[p] # <<>>
        /\ \E i \in 1..Len(free) : free[i] = cx[p]
        /\ pc[q] = "chain" /\ log[q] # <<>> /\ cx[q] # cx[p]

\* C24: the error handler gets the chain's error once when the chain returns
\* a non-nil error and is not called when it returns nil; it runs while the
\* context is still bound to the request; the default handler writes the
\* Code of an *HTTPError and 500 for any other error, and when it returns an
\* error itself a 500 is written after it.
C24_ErrorHandlerOnce ==
    \A q \in Reqs :
        /\ pc[q] \in {"idle", "chain", "returned"} =>
              handled[q] = <<>> /\ status[q] = <<>>
        /\ pc[q] = "handled" => ctxs[cx[q]].ctx = q /\ compRet[q] # NilErr
        /\ (pc[q] \in {"handled", "done"} /\ compRet[q] = NilErr) =>
              handled[q] = <<>> /\ status[q] = <<>>
        /\ (pc[q] \in {"handled", "done"} /\ compRet[q] # NilErr) =>
              /\ handled[q] = <<compRet[q]>>
              /\ Len(status[q]) \in {1, 2}
              /\ status[q][1] = IF compRet[q].code # 0 THEN compRet[q].code
                                ELSE 500
              /\ Len(status[q]) = 2 => status[q][2] = 500

\* The handler's *HTTPError 404 came through a middleware and was answered
\* with 404.
C24_Witness ==
    \E q \in Reqs :
        /\ pc[q] = "done"
        /\ NMw >= 1
        /\ compRet[q] = HTTPErr(HandlerId, StatusNotFound)
        /\ status[q] = <<StatusNotFound>>

(* ------------------- requests that match no route ------------------------ *)
StatusMethodNotAllowed == 405

\* The handlers New installs for a request without a route and for a
\* disallowed method, and a handler given to SetMethodNotAllowed.
NotFoundId == 0 - 2

MethodNotAllowedId == 0 - 3

CustomNotAllowedId == 0 - 4

MissIds == {NotFoundId, MethodNotAllowedId, CustomNotAllowedId}

\* A miss handler put behind the middleware registered with Use.
wrapBehindGlobals(h, mws) == chainMiddlewares(Terminal(h), convertNext(mws))

\* New and SetMethodNotAllowed: s.wrap(h) on the handler alone; the
\* middleware list of the router is not consulted.
wrapDirect(h, mws) == Terminal(h)

\* What the fasthttp router dispatches a request to: the chain of a matched
\* route, s.r.NotFound, or s.r.MethodNotAllowed as New or
\* SetMethodNotAllowed left it.  Middleware 1..n is registered with Use.
InitMiss ==
    /\ RouterFresh
    /\ PureIdle
    /\ \E n \in 0..MaxChain :
          /\ kind \in [1..n -> Kinds]
          /\ \/ /\ served = chainMiddlewares(Terminal(HandlerId),
                                             convertNext([i \in 1..n |-> i]))
                /\ hres \in {NilErr, PlainErr(HandlerId)}
             \/ /\ served = wrapDirect(NotFoundId, [i \in 1..n |-> i])
                /\ hres = HTTPErr(NotFoundId, StatusNotFound)
             \/ /\ served = wrapDirect(MethodNotAllowedId, [i \in 1..n |-> i])
                /\ hres = HTTPErr(MethodNotAllowedId, StatusMethodNotAllowed)
             \/ /\ served = wrapDirect(CustomNotAllowedId, [i \in 1..n |-> i])
                /\ hres \in {NilErr, PlainErr(CustomNotAllowedId)}
    /\ pc = [q \in Reqs |-> "idle"]
    /\ cx = [q \in Reqs |-> 0]
    /\ stack = [q \in Reqs |-> <<>>]
    /\ ret = [q \in Reqs |-> NilErr]
    /\ compRet = [q \in Reqs |-> NilErr]
    /\ handled = [q \in Reqs |-> <<>>]
    /\ status = [q \in Reqs |-> <<>>]
    /\ log = [q \in Reqs |-> <<>>]
    /\ seen = [q \in Reqs |-> {}]
    /\ ctxs = <<>>
    /\ free = <<>>

SpecMiss == InitMiss /\ [][NextChain]_vars

\* The handler at the end of a composed handler.
RECURSIVE InnerId(_)
InnerId(f) == IF f.kind = "handler" THEN f.id ELSE InnerId(f.next[1])

IsMiss == InnerId(served) \in MissIds

\* C29: a request dispatched to the not-found or method-not-allowed handler
\* enters no middleware registered with Use, only that handler; it runs on a
\* context that is bound to it and is released when it is over; the default
\* error handler writes 404 for the not-found handler of New and 405 for its
\* method-not-allowed handler.
C29_MissSkipsMiddleware ==
    IsMiss =>
        \A q \in Reqs :
            /\ \A i \in 1..Len(log[q]) : log[q][i].id = InnerId(served)
            /\ Len(log[q]) <= 2
            /\ Holding(q) => ctxs[cx[q]].ctx = q
            /\ pc[q] = "done" =>
                  /\ Len(log[q]) = 2
                  /\ cx[q] # 0
                  /\ ctxs[cx[q]].ctx = 0
                  /\ free = <<cx[q]>>
            /\ (pc[q] \in {"handled", "done"}
                /\ InnerId(served) = NotFoundId) =>
                  /\ handled[q] = <<HTTPErr(NotFoundId, 404)>>
                  /\ status[q][1] = 404
            /\ (pc[q] \in {"handled", "done"}
                /\ InnerId(served) = MethodNotAllowedId) =>
                  /\ handled[q] = <<HTTPErr(MethodNotAllowedId, 405)>>
                  /\ status[q][1] = 405

\* With three middleware registered, a request for a disallowed method is
\* over and was answered 405 by the handler alone.
C29_Witness ==
    /\ NMw = 3
    /\ served = Terminal(MethodNotAllowedId)
    /\ \E q \in Reqs :
          /\ pc[q] = "done"
          /\ status[q] = <<405>>
          /\ log[q] = <<Enter(MethodNotAllowedId),
                        Leave(MethodNotAllowedId, hres)>>

(* --------------------------- request accessors --------------------------- *)
\* The raw request of fasthttp as a handler finds it.  The router has read
\* the path before it dispatches, so the URI is parsed: host is the Host
\* header as it was then.  Header.Set writes hdr only; the request line
\* (method, requestURI, proto) and the parsed URI are not header entries.
RawRequest(method, requestURI, path, host, tls, proto) ==
    [method |-> method, requestURI |-> requestURI, path |-> path,
     host |-> host, hdr |-> [k \in {"Host"} |-> host],
     tls |-> tls, proto |-> proto]

\* c.ctx.Request.Header.Set(key, value)
SetHeader(raw, key, value) ==
    [raw EXCEPT !.hdr = [k \in DOMAIN raw.hdr \cup {key} |->
                            IF k = key THEN value ELSE raw.hdr[k]]]

\* A Host() that reads the Host header as it is now.
ctxHostFromHeader(raw) == raw.hdr["Host"]

\* c.ctx.Host(): the host of the parsed URI.
ctxHost(raw) == raw.host

LastIndexByte(s, ch) ==
    LET hits == {i \in 1..Len(s) : s[i] = ch}
    IN IF hits = {} THEN 0 ELSE CHOOSE i \in hits : \A j \in hits : j <= i

AddrError(msg) == [host |-> <<>>, port |-> <<>>, err |-> msg]

\* A split at the last colon with no look at brackets or further colons.
SplitHostPortAtLastColon(hostport) ==
    LET i == LastIndexByte(hostport, ":") IN
    IF i = 0 THEN AddrError("missing port in address")
    ELSE [host |-> SubSeq(hostport, 1, i - 1),
          port |-> SubSeq(hostport, i + 1, Len(hostport)), err |-> ""]

\* net.SplitHostPort; positions count from 1 (Go: from 0), err "" is nil.
SplitHostPort(hostport) ==
    LET i == LastIndexByte(hostport, ":")
        end == Index(hostport, <<"]">>)
        bracket == hostport[1] = "["
        host == IF bracket THEN SubSeq(hostport, 2, end - 1)
                ELSE SubSeq(hostport, 1, i - 1)
        afterJ == IF bracket THEN SubSeq(hostport, 2, Len(hostport))
                  ELSE hostport
        afterK == IF bracket THEN SubSeq(hostport, end + 1, Len(hostport))
                  ELSE hostport
    IN
    IF i = 0 THEN AddrError("missing port in address")
    ELSE IF bracket /\ end = 0 THEN AddrError("missing ']' in address")
    ELSE IF bracket /\ end = Len(hostport)
         THEN AddrError("missing port in address")
    ELSE IF bracket /\ end + 1 # i /\ hostport[end + 1] = ":"
         THEN AddrError("too many colons in address")
    ELSE IF bracket /\ end + 1 # i THEN AddrError("missing port in address")
    ELSE IF ~bracket /\ Index(host, <<":">>) # 0
         THEN AddrError("too many colons in address")
    ELSE IF Index(afterJ, <<"[">>) # 0
         THEN AddrError("unexpected '[' in address")
    ELSE IF Index(afterK, <<"]">>) # 0
         THEN AddrError("unexpected ']' in address")
    ELSE [host |-> host, port |-> SubSeq(hostport, i + 1, Len(hostport)),
          err |-> ""]

Method(raw) == raw.method

ContextPath(raw) == raw.path

OriginalURL(raw) == raw.requestURI

\* BaseUrl: the scheme by IsTLS, "://", c.ctx.Host().
BaseUrl(raw) ==
    LET scheme == IF raw.tls THEN <<"h", "t", "t", "p", "s">>
                  ELSE <<"h", "t", "t", "p">>
    IN scheme \o <<":", "/", "/">> \o ctxHost(raw)

\* Hostname: the host of net.SplitHostPort, the raw host when it fails.
Hostname(raw) ==
    LET r == SplitHostPort(ctxHost(raw)) IN
    IF r.err # "" THEN ctxHost(raw) ELSE r.host

Protocol(raw) == raw.proto

\* Raw hosts: every text of these characters up to MaxHostLen long.
MaxHostLen == 5

HostChars == {"h", "8", ":", "[", "]"}

HostTexts == UNION {[1..n -> HostChars] : n \in 0..MaxHostLen}

GetText == <<"G", "E", "T">>

RootPath == <<"/">>

Http11 == <<"H", "T", "T", "P", "/", "1", ".", "1">>

\* A request with any raw host, over TLS or not; Hostname and BaseUrl are
\* each called on it.
InitHost ==
    /\ RouterFresh
    /\ ServeIdle
    /\ nego = [pc |-> "idle"]
    /\ rreq = [pc |-> "idle"]
    /\ preg = [pc |-> "idle"]
    /\ \E host \in HostTexts, tls \in BOOLEAN :
          areq = [pc |-> "host",
                  raw |-> RawRequest(GetText, RootPath, RootPath, host, tls,
                                     Http11),
                  got |-> <<>>]

HostnameCall ==
    /\ areq.pc = "host"
    /\ "Hostname" \notin DOMAIN areq.got
    /\ areq' = [areq EXCEPT !.got = [k \in DOMAIN @ \cup {"Hostname"} |->
                   IF k = "Hostname" THEN Hostname(areq.raw) ELSE @[k]]]
    /\ UNCHANGED <<rvars, svars, nego, rreq, preg>>

BaseUrlCall ==
    /\ areq.pc = "host"
    /\ "BaseUrl" \notin DOMAIN areq.got
    /\ areq' = [areq EXCEPT !.got = [k \in DOMAIN @ \cup {"BaseUrl"} |->
                   IF k = "BaseUrl" THEN BaseUrl(areq.raw) ELSE @[k]]]
    /\ UNCHANGED <<rvars, svars, nego, rreq, preg>>

NextHost == HostnameCall \/ BaseUrlCall

SpecHost == InitHost /\ [][NextHost]_vars

(* ----------------------------- accessor claims --------------------------- *)
NoneOf(s, chars) == \A i \in 1..Len(s) : s[i] \notin chars

\* s reads host ":" port, the host plain or an address in brackets; i is the
\* position of the colon.
PlainHostPort(s, i) ==
    /\ s[i] = ":"
    /\ NoneOf(SubSeq(s, 1, i - 1), {":", "[", "]"})
    /\ NoneOf(SubSeq(s, i + 1, Len(s)), {":", "[", "]"})

BracketHostPort(s, i) ==
    /\ i >= 3
    /\ s[i] = ":" /\ s[1] = "[" /\ s[i - 1] = "]"
    /\ NoneOf(SubSeq(s, 2, i - 2), {"[", "]"})
    /\ NoneOf(SubSeq(s, i + 1, Len(s)), {":", "[", "]"})

\* The hostname part of a raw host with a port, the raw host otherwise.
HostnamePart(s) ==
    IF \E i \in 1..Len(s) : PlainHostPort(s, i)
    THEN SubSeq(s, 1, (CHOOSE i \in 1..Len(s) : PlainHostPort(s, i)) - 1)
    ELSE IF \E i \in 1..Len(s) : BracketHostPort(s, i)
    THEN SubSeq(s, 2, (CHOOSE i \in 1..Len(s) : BracketHostPort(s, i)) - 2)
    ELSE s

\* C22: Hostname returns the hostname part of a raw host that reads
\* host ":" port and the raw host unchanged for every other text, malformed
\* ones included; BaseUrl is "https://" over TLS and "http://" otherwise,
\* followed by the raw host with its port.
C22_HostnameDegrades ==
    areq.pc = "host" =>
        /\ "Hostname" \in DOMAIN areq.got =>
              areq.got["Hostname"] = HostnamePart(areq.raw.host)
        /\ "BaseUrl" \in DOMAIN areq.got =>
              areq.got["BaseUrl"] =
                  (IF areq.raw.tls
                   THEN <<"h", "t", "t", "p", "s", ":", "/", "/">>
                   ELSE <<"h", "t", "t", "p", ":", "/", "/">>)
                  \o areq.raw.host

\* Over TLS with the raw host "[h]:8": Hostname gave "h", BaseUrl kept the
\* port.
C22_Witness ==
    /\ areq.pc = "host"
    /\ areq.raw.tls
    /\ areq.raw.host = <<"[", "h", "]", ":", "8">>
    /\ DOMAIN areq.got = {"Hostname", "BaseUrl"}
    /\ areq.got["Hostname"] = <<"h">>

(* ----------------------- accessors called repeatedly --------------------- *)
MaxCalls == 3

AccessorNames ==
    {"Method", "Path", "OriginalURL", "BaseUrl", "Hostname", "Protocol"}

\* The accessor methods of Context by name.
Accessor(name, raw) ==
    CASE name = "Method" -> Method(raw)
      [] name = "Path" -> ContextPath(raw)
      [] name = "OriginalURL" -> OriginalURL(raw)
      [] name = "BaseUrl" -> BaseUrl(raw)
      [] name = "Hostname" -> Hostname(raw)
      [] name = "Protocol" -> Protocol(raw)

PostText == <<"P", "O", "S", "T">>

QueryURI == <<"/", "?", "x">>

SetKeys == {"Host", "X-Id"}

SetValues == {<<"x", ":", "9">>}

\* One request inside a handler: calls lists the accessor calls and the
\* SetHeader calls made so far, reads counts for each accessor how often its
\* body read the raw request.
InitAccessors ==
    /\ RouterFresh
    /\ ServeIdle
    /\ nego = [pc |-> "idle"]
    /\ rreq = [pc |-> "idle"]
    /\ preg = [pc |-> "idle"]
    /\ \E method \in {GetText, PostText}, uri \in {RootPath, QueryURI},
          host \in {<<"h">>, <<"h", ":", "8">>}, tls \in BOOLEAN :
          areq = [pc |-> "calls",
                  raw |-> RawRequest(method, uri, RootPath, host, tls, Http11),
                  calls |-> <<>>,
                  reads |-> [a \in AccessorNames |-> 0]]

\* A handler calls an accessor: its body reads the raw request and converts.
Access(name) ==
    /\ areq.pc = "calls"
    /\ Len(areq.calls) < MaxCalls
    /\ areq' = [areq EXCEPT
                  !.calls = Append(@, [name |-> name,
                                       value |-> Accessor(name, areq.raw)]),
                  !.reads[name] = @ + 1]
    /\ UNCHANGED <<rvars, svars, nego, rreq, preg>>

\* A handler calls c.SetHeader(key, value).
SetHeaderCall(key, value) ==
    /\ areq.pc = "calls"
    /\ Len(areq.calls) < MaxCalls
    /\ areq' = [areq EXCEPT
                  !.raw = SetHeader(areq.raw, key, value),
                  !.calls = Append(@, [name |-> "SetHeader", value |-> value])]
    /\ UNCHANGED <<rvars, svars, nego, rreq, preg>>

NextAccessors ==
    \/ \E name \in AccessorNames : Access(name)
    \/ \E key \in SetKeys, value \in SetValues : SetHeaderCall(key, value)

SpecAccessors == InitAccessors /\ [][NextAccessors]_vars

CallsOf(name) == {i \in 1..Len(areq.calls) : areq.calls[i].name = name}

MaxGroups == 2

MaxRegs == 2

\* strings.TrimRight(s, "/") and strings.TrimLeft(s, "/")
RECURSIVE TrimRight(_, _)
TrimRight(s, ch) ==
    IF s # <<>> /\ s[Len(s)] = ch
    THEN TrimRight(SubSeq(s, 1, Len(s) - 1), ch) ELSE s

RECURSIVE TrimLeft(_, _)
TrimLeft(s, ch) == IF s # <<>> /\ s[1] = ch THEN TrimLeft(Tail(s), ch) ELSE s

\* add: the path handed to the fasthttp router.
fullPath(basePath, path) ==
    TrimRight(basePath, "/") \o <<"/">> \o TrimLeft(path, "/")

Prefixes == { <<"/", "a">>, <<"/", "v", "/">> }

RoutePaths == { <<"/", "f">>, <<"f">>, <<"/", "/", "f">> }

\* New: one router with the empty base path, nothing registered.
InitPaths ==
    /\ RouterFresh
    /\ ServeIdle
    /\ nego = [pc |-> "idle"]
    /\ rreq = [pc |-> "idle"]
    /\ areq = [pc |-> "idle"]
    /\ preg = [pc |-> "paths",
               base |-> << <<>> >>,
               parent |-> <<0>>,
               prefix |-> << <<>> >>,
               reg |-> <<>>]

\* g := r.Group(prefix)
GroupPrefix(r, prefix) ==
    /\ preg.pc = "paths"
    /\ Len(preg.base) < 1 + MaxGroups
    /\ preg' = [preg EXCEPT !.base = Append(@, preg.base[r] \o prefix),
                            !.parent = Append(@, r),
                            !.prefix = Append(@, prefix)]
    /\ UNCHANGED <<rvars, svars, nego, rreq, areq>>

\* r.GET(path, h): add("GET", path, h).
GETRoute(r, path) ==
    /\ preg.pc = "paths"
    /\ Len(preg.reg) < MaxRegs
    /\ preg' = [preg EXCEPT !.reg = Append(@,
                   [by |-> "GET", router |-> r, path |-> path,
                    full |-> fullPath(preg.base[r], path)])]
    /\ UNCHANGED <<rvars, svars, nego, rreq, areq>>

\* r.ServeFile(path, file): r.GET(r.basePath+path, ...).
ServeFile(r, path) ==
    /\ preg.pc = "paths"
    /\ Len(preg.reg) < MaxRegs
    /\ preg' = [preg EXCEPT !.reg = Append(@,
                   [by |-> "ServeFile", router |-> r, path |-> path,
                    full |-> fullPath(preg.base[r], preg.base[r] \o path)])]
    /\ UNCHANGED <<rvars, svars, nego, rreq, areq>>

NextPaths ==
    \/ \E r \in 1..Len(preg.base), prefix \in Prefixes : GroupPrefix(r, prefix)
    \/ \E r \in 1..Len(preg.base), path \in RoutePaths : GETRoute(r, path)
    \/ \E r \in 1..Len(preg.base), path \in RoutePaths : ServeFile(r, path)

SpecPaths == InitPaths /\ [][NextPaths]_vars

(* ------------------------------- path claims ----------------------------- *)
\* C30: a group's base path is its parent's base path followed by the
\* prefix, and every route, registered by GET or by ServeFile, has the full
\* path made of the router's base path without trailing slashes, one "/",
\* and the path without leading slashes.
C30_BasePathOnce ==
    preg.pc = "paths" =>
        /\ \A g \in 2..Len(preg.base) :
              preg.base[g] = preg.base[preg.parent[g]] \o preg.prefix[g]
        /\ \A i \in 1..Len(preg.reg) :
              LET e == preg.reg[i] IN
              e.full = TrimRight(preg.base[e.router], "/") \o <<"/">>
                           \o TrimLeft(e.path, "/")

(* ---------------------- negotiation claims, continued -------------------- *)
\* The place of header item k after a stable sort by descending weight.
StableRank(k) ==
    Cardinality({j \in 1..Len(NegItems) : NegItems[j].q > NegItems[k].q})
    + Cardinality({j \in 1..k : NegItems[j].q = NegItems[k].q})

StableOrder ==
    [r \in 1..Len(NegItems) |->
        NegItems[CHOOSE k \in 1..Len(NegItems) : StableRank(k) = r]]

\* The earliest header item among the matching items of the highest weight.
EarliestBest ==
    CHOOSE k \in MatchingItems :
        /\ \A j \in MatchingItems : NegItems[j].q <= NegItems[k].q
        /\ \A j \in MatchingItems : NegItems[j].q = NegItems[k].q => k <= j

\* C25: parseAccept leaves the items in descending weight with items of
\* equal weight in header order, for a header of any length; so the result is
\* the first offer matched by the earliest of the highest-weighted matching
\* items.
C25_StableTies ==
    (NegDone /\ NegHeader # <<>>) =>
        /\ parseAccept(NegHeader) = StableOrder
        /\ MatchingItems # {} => nego.result = FirstOfferOf(EarliestBest)

\* C26: every item of parseAccept has a weight from 0 to 1 (0 to 1000
\* thousandths), and the weight is 1 when the item has no ";q=" or the text
\* after it is no number.
C26_WeightInUnitRange ==
    (NegDone /\ NegHeader # <<>>) =>
        LET parts == Split(NegHeader, ",")
            items == parseAccept(NegHeader)
        IN /\ \A k \in 1..Len(items) : items[k].q >= 0 /\ items[k].q <= 1000
           /\ \A k \in 1..Len(parts) :
                 LET part == TrimSpace(parts[k])
                     idx == Index(part, <<";", "q", "=">>)
                 IN (idx = 0
                     \/ ~ParseFloat(SubSeq(part, idx + 3, Len(part))).ok) =>
                        NegItems[k].q = 1000

====
